---- MODULE Spec2Model ----
(***************************************************************************)
(* Model of maps_dashboard.py: a Streamlit script that is re-executed top  *)
(* to bottom on every viewer interaction.  The state is the local storage, *)
(* the st.cache_data table of load_html_text, the position of the running  *)
(* script and the page it has emitted so far.                              *)
(***************************************************************************)
EXTENDS Naturals, Sequences, FiniteSets, TLC

\* ------------------------------------------------------------------ bounds
\* Number of events the environment injects in one process lifetime: files
\* deleted from outside the program, and fetches that fail (network, HTTP
\* status, storage).
MaxEnvEvents == 1

\* ------------------------------------------------------------- text values
\* A text is abstracted to its number of content characters (n) and of
\* characters a whitespace/comment stripper removes (ws).
Text(n, ws) == [kind |-> "text", n |-> n, ws |-> ws]

TextLen(t) == t.n + t.ws

MINIFY_THRESHOLD == 200000

\* Texts of length 199,999 / 200,000 / 200,001 around the threshold.
T_below == Text(MINIFY_THRESHOLD - 10, 9)
T_at == Text(MINIFY_THRESHOLD - 10, 10)
T_above == Text(MINIFY_THRESHOLD - 10, 11)
\* A text above the threshold holding nothing a minifier removes.
T_dense == Text(MINIFY_THRESHOLD + 1, 0)

Absent == [kind |-> "absent"]

\* ------------------------------------------------------------------- paths
\* A pathlib.Path is the sequence of its components; Path(".") is <<>>.
ASSETS_DIR == <<>>

PathJoin(dir, parts) == dir \o parts

PathParent(p) == IF Len(p) = 0 THEN p ELSE SubSeq(p, 1, Len(p) - 1)

\* Every ancestor directory of p, p included (mkdir(parents=True)).
PathAncestors(p) == {SubSeq(p, 1, k) : k \in 1..Len(p)}

USER == "izikn-tooz"
REPO == "NYCmayoralPrimaryanalysis"
TAG == "v1Maps"

DOWNLOAD_BASE == "https://github.com/" \o USER \o "/" \o REPO \o "/releases/download/" \o TAG \o "/"

FULL_CENTER_NAME == "overlay_results_top_with_slider_dots_bottom_static.html"
BOTTOM_LEFT_NAME == "personal_diversity_heatmap_no_water_overlap.html"
BOTTOM_RIGHT_NAME == "shannon_index_heatmap_no_water_overlap.html"

FULL_CENTER_LOCAL == PathJoin(ASSETS_DIR, <<"Primary Maps", FULL_CENTER_NAME>>)
BOTTOM_LEFT_LOCAL == PathJoin(ASSETS_DIR, <<"Primary Maps", BOTTOM_LEFT_NAME>>)
BOTTOM_RIGHT_LOCAL == PathJoin(ASSETS_DIR, <<"Primary Maps", BOTTOM_RIGHT_NAME>>)

PERSONAL_DIVERSITY_IMG == PathJoin(ASSETS_DIR, <<"Person_diversity_example.png">>)
PERSONAL_VS_ZOHRAN_IMG == PathJoin(ASSETS_DIR, <<"Personal_Diversity_vs_Proportion_Zohran.png">>)
SHANNON_VS_ZOHRAN_IMG == PathJoin(ASSETS_DIR, <<"ShannonindexvProportionZohran.png">>)
QUEENS_EXAMPLE_IMG == PathJoin(ASSETS_DIR, <<"Queens Example.png">>)

LOGIT_FULL_XLSX == PathJoin(ASSETS_DIR, <<"LogitFull.xlsx">>)
LOGIT_PARTIAL_XLSX == PathJoin(ASSETS_DIR, <<"LogitPartial.xlsx">>)
LOGIT_BIVAR_XLSX == PathJoin(ASSETS_DIR, <<"LogitBivariate.xlsx">>)
MULTI_UNWEIGHTED_XLSX == PathJoin(ASSETS_DIR, <<"Multinomial Unweighted.xlsx">>)
MULTI_WEIGHT_XLSX == PathJoin(ASSETS_DIR, <<"Multinomial Weighted.xlsx">>)

MapPaths == {FULL_CENTER_LOCAL, BOTTOM_LEFT_LOCAL, BOTTOM_RIGHT_LOCAL}

ImagePaths == {PERSONAL_DIVERSITY_IMG, PERSONAL_VS_ZOHRAN_IMG, SHANNON_VS_ZOHRAN_IMG, QUEENS_EXAMPLE_IMG}

SheetPaths == {LOGIT_FULL_XLSX, LOGIT_PARTIAL_XLSX, LOGIT_BIVAR_XLSX, MULTI_UNWEIGHTED_XLSX, MULTI_WEIGHT_XLSX}

AssetPaths == MapPaths \cup ImagePaths \cup SheetPaths

\* The module-level names bound by the three download_file calls.
PathVars == {"FULL_CENTER_PATH", "BOTTOM_LEFT_MAP_PATH", "BOTTOM_RIGHT_MAP_PATH"}

Unbound == <<"<unbound>">>

DEFAULT_FULL_HEIGHT == 600
DEFAULT_PAIR_HEIGHT == 600

\* --------------------------------------------------------- storage contents
\* Response bodies a GET with a non-error status may carry.
Bodies == {T_above}

\* Bytes that are not valid UTF-8: p.read_text(encoding="utf-8") raises.
Binary == [kind |-> "bytes"]

\* What an interrupted f.write leaves behind: a proper prefix of the body,
\* here the empty file that open() made, the first half, or a prefix that
\* ends inside a multi-byte character.
Truncations(body) == {Text(0, 0), Text(body.n \div 2, body.ws \div 2), Binary}

Png == [kind |-> "png"]

\* A workbook: its sheet names in order, and whether openpyxl can parse it.
Workbook(names, ok) == [kind |-> "xlsx", sheets |-> names, readable |-> ok]

WB_Sheet1 == Workbook(<<"Sheet1">>, TRUE)

NoEntry == [kind |-> "none"]

CacheKeys == MapPaths \X BOOLEAN

\* ------------------------------------------------------------------- state
VARIABLES
  files,          \* local storage: path -> content, or Absent
  dirs,           \* directories that exist on local storage
  cache,          \* st.cache_data table of load_html_text: key -> text
  HAVE_HTMLMIN,   \* whether "import htmlmin" succeeds in this deployment
  pc,             \* 0: waiting for the viewer; k: about to run Script[k]
  run,            \* "none" before the first script run, then "first", then "later"
  pathVar,        \* module-level names bound by download_file's return value
  full_h,         \* slider "Full-width map height (px)"
  pair_h,         \* slider "Bottom pair height (px)"
  refresh,        \* value of the "Refresh maps" button in this run
  page,           \* elements emitted by this run, in order
  netlog,         \* history: GETs of this run: URL, response, where the try block stopped
  reqSinceMissing,\* history: GETs for a path since it last became missing
  removedInRun,   \* history: paths removed from outside during this run
  loads,          \* history: load_html_text calls of this run, in order
  seen,           \* history: first text returned per key since the last clear
  envEvents       \* number of outside deletions and failed fetches so far

vars == <<files, dirs, cache, HAVE_HTMLMIN, pc, run, pathVar, full_h, pair_h,
          refresh, page, netlog, reqSinceMissing, removedInRun, loads, seen, envEvents>>

\* ------------------------------------------------------------------ script
\* The statements of the script that touch storage, the cache or the page,
\* in execution order, each display statement with the section it belongs
\* to; of the static text, the headings and notes of the two map columns.
Script ==
  << [op |-> "download", var |-> "FULL_CENTER_PATH", remote |-> FULL_CENTER_NAME, local |-> FULL_CENTER_LOCAL],
     [op |-> "download", var |-> "BOTTOM_LEFT_MAP_PATH", remote |-> BOTTOM_LEFT_NAME, local |-> BOTTOM_LEFT_LOCAL],
     [op |-> "download", var |-> "BOTTOM_RIGHT_MAP_PATH", remote |-> BOTTOM_RIGHT_NAME, local |-> BOTTOM_RIGHT_LOCAL],
     [op |-> "sidebar"],
     [op |-> "html", section |-> "overlay", var |-> "FULL_CENTER_PATH", height |-> "full_h", width |-> 2200],
     [op |-> "markdown", section |-> "col1", id |-> "Personal Diversity Heatmap"],
     [op |-> "html", section |-> "col1", var |-> "BOTTOM_LEFT_MAP_PATH", height |-> "pair_h", width |-> 1200],
     [op |-> "image", section |-> "col1", path |-> PERSONAL_DIVERSITY_IMG],
     [op |-> "markdown", section |-> "col1", id |-> "note: Personal Diversity Index"],
     [op |-> "markdown", section |-> "col2", id |-> "Shannon Index Heatmap"],
     [op |-> "html", section |-> "col2", var |-> "BOTTOM_RIGHT_MAP_PATH", height |-> "pair_h", width |-> 1200],
     [op |-> "markdown", section |-> "col2", id |-> "note: Shannon Diversity Index"],
     [op |-> "image", section |-> "img_col1", path |-> PERSONAL_VS_ZOHRAN_IMG],
     [op |-> "image", section |-> "img_col2", path |-> SHANNON_VS_ZOHRAN_IMG],
     [op |-> "excel", section |-> "logit_full", path |-> LOGIT_FULL_XLSX, csv |-> "LogitFull_table.csv", sheets |-> <<"Sheet1">>],
     [op |-> "excel", section |-> "logit_partial", path |-> LOGIT_PARTIAL_XLSX, csv |-> "LogitPartial_table.csv", sheets |-> <<"Sheet1">>],
     [op |-> "excel", section |-> "logit_bivar", path |-> LOGIT_BIVAR_XLSX, csv |-> "LogitBivariate_table.csv", sheets |-> <<"Sheet1", "sheet 1", "<first>">>],
     [op |-> "excel", section |-> "multi_unweighted", path |-> MULTI_UNWEIGHTED_XLSX, csv |-> "Multinomial_Unweighted_table.csv", sheets |-> <<"Sheet1", "sheet 1", "<first>">>],
     [op |-> "excel", section |-> "multi_weight", path |-> MULTI_WEIGHT_XLSX, csv |-> "MultinomialWeighted_table.csv", sheets |-> <<"Sheet1", "sheet 1", "<first>">>],
     [op |-> "image", section |-> "queens", path |-> QUEENS_EXAMPLE_IMG] >>

\* The position after Script[k]; 0 when the script has reached its end.
After(k) == IF k = Len(Script) THEN 0 ELSE k + 1

At(kind) == pc \in 1..Len(Script) /\ Script[pc].op = kind

\* The statement that consumes path p, as a position of the script.
DownloadStepOf(p) == CHOOSE k \in 1..Len(Script) : Script[k].op = "download" /\ Script[k].local = p

\* -------------------------------------------------------------------- Init
\* A fresh process on a deployment of the repository: images and workbooks
\* are checked in; each map document may be present already (a copy put
\* there at deployment) or not.
Init ==
  /\ \E m \in [MapPaths -> {Absent, T_at}] :
       files = [p \in AssetPaths |->
                  IF p \in MapPaths THEN m[p]
                  ELSE IF p \in ImagePaths THEN Png ELSE WB_Sheet1]
  /\ dirs \in {{}, {<<"Primary Maps">>}}
  /\ \A p \in MapPaths : files[p] # Absent => PathParent(p) \in dirs
  /\ cache = [k \in CacheKeys |-> NoEntry]
  /\ HAVE_HTMLMIN \in BOOLEAN
  /\ pc = 0
  /\ run = "none"
  /\ pathVar = [v \in PathVars |-> Unbound]
  /\ full_h = DEFAULT_FULL_HEIGHT
  /\ pair_h = DEFAULT_PAIR_HEIGHT
  /\ refresh = FALSE
  /\ page = <<>>
  /\ netlog = <<>>
  /\ reqSinceMissing = [p \in MapPaths |-> 0]
  /\ removedInRun = {}
  /\ loads = <<>>
  /\ seen = [k \in CacheKeys |-> NoEntry]
  /\ envEvents = 0

\* ----------------------------------------------------------- page elements
StInfo(text) == [kind |-> "info", text |-> text]

StSuccess(text) == [kind |-> "success", text |-> text]

StError(text) == [kind |-> "error", text |-> text]

\* An exception that escapes to module level ends the script run.
Uncaught(exc) == [kind |-> "exception", text |-> <<exc>>]

\* ----------------------------------------------------------- download_file
\* Outcomes of requests.get followed by raise_for_status.
NetOutcomes ==
  {[status |-> "ConnectionError"], [status |-> "HTTPError"]}
    \cup {[status |-> "ok", content |-> b] : b \in Bodies}

\* Outcomes of mkdir / open / write on local storage.
FsOutcomes == {"ok", "mkdir_error", "open_error", "write_error"}

Exists(p) == files[p] # Absent

\* Variants of the existence test: never taken; also taken once a fetch was
\* tried; not taken after a "Refresh maps" click; testing the directory.
AlreadyLocal_Never(local_path) == FALSE

AlreadyLocal_OrTried(local_path) == Exists(local_path) \/ reqSinceMissing[local_path] > 0

AlreadyLocal_UnlessRefresh(local_path) == Exists(local_path) /\ ~refresh

AlreadyLocal_DirExists(local_path) == PathParent(local_path) \in dirs

\* "if local_path.exists(): return local_path"
AlreadyLocal(local_path) == Exists(local_path)

\* Variant: the release tag left out of the URL.
FetchUrl_NoTag(remote_name) == "https://github.com/" \o USER \o "/" \o REPO \o "/releases/download/" \o remote_name

\* "url = DOWNLOAD_BASE + remote_name"
FetchUrl(remote_name) == DOWNLOAD_BASE \o remote_name

\* The statement of the try block that raises: "get", "raise_for_status",
\* "mkdir", "open", "write", or "none" when the block runs to its end.
\* mkdir(parents=True, exist_ok=True) cannot fail on a directory that exists.
RaisedAt(local_path, net, fs) ==
  IF net.status = "ConnectionError" THEN "get"
  ELSE IF net.status = "HTTPError" THEN "raise_for_status"
  ELSE IF fs = "mkdir_error" /\ PathParent(local_path) \notin dirs THEN "mkdir"
  ELSE IF fs = "open_error" THEN "open"
  ELSE IF fs = "write_error" THEN "write"
  ELSE "none"

ExceptionOf(stage) ==
  CASE stage = "get" -> "ConnectionError"
    [] stage = "raise_for_status" -> "HTTPError"
    [] stage \in {"mkdir", "open", "write"} -> "OSError"
    [] OTHER -> "none"

\* Variant: "except requests.RequestException".
Caught_RequestsOnly(exc) == exc \in {"ConnectionError", "HTTPError"}

\* "except Exception as e": every error of the try block is an Exception.
Caught(exc) == exc \in {"ConnectionError", "HTTPError", "OSError"}

\* Variant: the directory is made before the GET.
DirsAfter_Eager(local_path, stage) == dirs \cup PathAncestors(PathParent(local_path))

\* Directories after the try block stopped at `stage`.
DirsAfter(local_path, stage) ==
  IF stage \in {"open", "write", "none"}
  THEN dirs \cup PathAncestors(PathParent(local_path))
  ELSE dirs

\* Variant: the incomplete file is removed when the write fails.
FileAfter_Cleanup(local_path, stage, net, cut) ==
  CASE stage = "none" -> net.content
    [] stage = "write" -> Absent
    [] OTHER -> files[local_path]

\* File at local_path after the try block stopped at `stage`.
FileAfter(local_path, stage, net, cut) ==
  CASE stage = "none" -> net.content
    [] stage = "write" -> cut
    [] OTHER -> files[local_path]

\* Notices emitted after the GET.
NoticesAfter(remote_name, stage) ==
  IF stage = "none"
  THEN <<StSuccess(<<"Downloaded", remote_name>>)>>
  ELSE IF Caught(ExceptionOf(stage))
  THEN <<StError(<<"Failed to fetch", remote_name, FetchUrl(remote_name), ExceptionOf(stage)>>)>>
  ELSE <<Uncaught(ExceptionOf(stage))>>

\* One call download_file(remote_name, local_path) whose result is bound to
\* the module-level name v.
download_file(v, remote_name, local_path) ==
  IF AlreadyLocal(local_path)
  THEN /\ pathVar' = [pathVar EXCEPT ![v] = local_path]
       /\ pc' = After(pc)
       /\ UNCHANGED <<files, dirs, page, netlog, reqSinceMissing, envEvents>>
  ELSE \E net \in NetOutcomes, fs \in FsOutcomes :
       \E cut \in (IF net.status = "ok" THEN Truncations(net.content) ELSE {Absent}) :
         LET stage == RaisedAt(local_path, net, fs)
             escaped == stage # "none" /\ ~Caught(ExceptionOf(stage))
         IN /\ stage # "none" => envEvents < MaxEnvEvents
            /\ envEvents' = IF stage # "none" THEN envEvents + 1 ELSE envEvents
            /\ netlog' = Append(netlog, [url |-> FetchUrl(remote_name), for |-> local_path,
                                         resp |-> net, stage |-> stage])
            /\ reqSinceMissing' = [reqSinceMissing EXCEPT ![local_path] = @ + 1]
            /\ files' = [files EXCEPT ![local_path] = FileAfter(local_path, stage, net, cut)]
            /\ dirs' = DirsAfter(local_path, stage)
            /\ page' = page \o <<StInfo(<<"Fetching", remote_name>>)>> \o NoticesAfter(remote_name, stage)
            /\ pathVar' = IF escaped THEN pathVar ELSE [pathVar EXCEPT ![v] = local_path]
            /\ pc' = IF escaped THEN 0 ELSE After(pc)

\* Script lines 51-62.
Download ==
  /\ At("download")
  /\ download_file(Script[pc].var, Script[pc].remote, Script[pc].local)
  /\ UNCHANGED <<cache, HAVE_HTMLMIN, run, full_h, pair_h, refresh, removedInRun, loads, seen>>

\* The viewer opens the page or touches a widget: the script starts again.
StartRebuild ==
  /\ pc = 0
  /\ run' = IF run = "none" THEN "first" ELSE "later"
  /\ pc' = 1
  /\ page' = <<>>
  /\ pathVar' = [v \in PathVars |-> Unbound]
  /\ netlog' = <<>>
  /\ removedInRun' = {}
  /\ loads' = <<>>
  /\ UNCHANGED <<files, dirs, cache, HAVE_HTMLMIN, full_h, pair_h, refresh, reqSinceMissing, seen, envEvents>>

\* A file is deleted by hand, outside the program.  Every path is tested
\* once per run by its section, and a map path once more by download_file,
\* so a deletion between two runs and a deletion of a map document between
\* the downloads and the sections stand for the deletions at all other times.
EnvRemove ==
  /\ envEvents < MaxEnvEvents
  /\ \E p \in AssetPaths :
       /\ pc = 0 \/ (At("sidebar") /\ p \in MapPaths)
       /\ Exists(p)
       /\ files' = [files EXCEPT ![p] = Absent]
       /\ removedInRun' = IF pc = 0 THEN removedInRun ELSE removedInRun \cup {p}
       /\ reqSinceMissing' = IF p \in MapPaths THEN [reqSinceMissing EXCEPT ![p] = 0] ELSE reqSinceMissing
  /\ envEvents' = envEvents + 1
  /\ UNCHANGED <<dirs, cache, HAVE_HTMLMIN, pc, run, pathVar, full_h, pair_h, refresh, page, netlog, loads, seen>>

\* ---------------------------------------------------------- load_html_text
\* htmlmin.minify(remove_comments, remove_empty_space): strips what it can.
Minify(txt) == Text(txt.n, 0)

\* Variant: ">=" for ">".
ShouldMinify_AtLeast(txt, do_minify) == do_minify /\ HAVE_HTMLMIN /\ TextLen(txt) >= MINIFY_THRESHOLD

\* "if do_minify and HAVE_HTMLMIN and len(txt) > 200_000"
ShouldMinify(txt, do_minify) == do_minify /\ HAVE_HTMLMIN /\ TextLen(txt) > MINIFY_THRESHOLD

\* A long text with markup that the parser under htmlmin.minify rejects
\* (a marked section with an unknown keyword): the call raises.
T_malformed == [kind |-> "text", n |-> MINIFY_THRESHOLD + 1, ws |-> 1, malformed |-> TRUE]

MinifyRaises(txt) == "malformed" \in DOMAIN txt

\* The body of load_html_text, run on a cache miss: the text read, whether
\* the minifier ran on it, and the value returned or the exception raised.
LoadBody(p, do_minify) ==
  IF ~Exists(p)
  THEN [exc |-> "FileNotFoundError", src |-> NoEntry, minified |-> FALSE, value |-> NoEntry]
  ELSE IF files[p].kind # "text"
  THEN [exc |-> "UnicodeDecodeError", src |-> NoEntry, minified |-> FALSE, value |-> NoEntry]
  ELSE LET txt == files[p]
           m == ShouldMinify(txt, do_minify)
       IN IF m /\ MinifyRaises(txt)
          THEN [exc |-> "AssertionError", src |-> txt, minified |-> FALSE, value |-> NoEntry]
          ELSE [exc |-> "none", src |-> txt, minified |-> m,
                value |-> IF m THEN Minify(txt) ELSE txt]

\* Variant: the flag left out of the key.
CacheKey_PathOnly(p, do_minify) == <<p, TRUE>>

\* st.cache_data keys an entry by the arguments of the call.
CacheKey(p, do_minify) == <<p, do_minify>>

\* A call load_html_text(p, do_minify) through @st.cache_data on the table
\* c: the value returned or the exception raised, the table afterwards, and
\* whether the body ran (a storage read).  An exception stores nothing.
CachedCall(c, p, do_minify) ==
  LET key == CacheKey(p, do_minify)
  IN IF c[key] # NoEntry
     THEN [exc |-> "none", value |-> c[key], cache |-> c, read |-> FALSE,
           src |-> NoEntry, minified |-> FALSE]
     ELSE LET r == LoadBody(p, do_minify)
          IN [exc |-> r.exc, value |-> r.value, read |-> TRUE,
              src |-> r.src, minified |-> r.minified,
              cache |-> IF r.exc = "none" THEN [c EXCEPT ![key] = r.value] ELSE c]

\* The call on the table as it is.
load_html_text(p, do_minify) == CachedCall(cache, p, do_minify)

\* Variant: only the entries of the full-width map are dropped.
CacheClear_OnlyFirst == [k \in CacheKeys |-> IF k[1] = FULL_CENTER_LOCAL THEN NoEntry ELSE cache[k]]

\* "load_html_text.clear()"
CacheClear == [k \in CacheKeys |-> NoEntry]

\* History of a call with arguments (p, do_minify) that gave r.
LoadRecord(p, do_minify, r) ==
  [key |-> <<p, do_minify>>, exc |-> r.exc, value |-> r.value, read |-> r.read,
   src |-> r.src, minified |-> r.minified]

SeenAfter(p, do_minify, r) ==
  IF r.exc = "none" /\ seen[<<p, do_minify>>] = NoEntry
  THEN [seen EXCEPT ![<<p, do_minify>>] = r.value]
  ELSE seen

\* ---------------------------------------------------------- render_html_now
StHtml(text, height, width) == [kind |-> "iframe", html |-> text, height |-> height, width |-> width]

\* Variant: the existence test made only when the table has no entry.
render_html_now_CacheFirst(path, height, width_px, minify) ==
  IF ~Exists(path) /\ cache[CacheKey(path, minify)] = NoEntry
  THEN /\ page' = Append(page, StError(<<"File not found", path>>))
       /\ pc' = After(pc)
       /\ UNCHANGED <<cache, loads, seen>>
  ELSE LET r == load_html_text(path, minify)
       IN /\ cache' = r.cache
          /\ loads' = Append(loads, LoadRecord(path, minify, r))
          /\ seen' = SeenAfter(path, minify, r)
          /\ page' = Append(page, IF r.exc = "none" THEN StHtml(r.value, height, width_px) ELSE Uncaught(r.exc))
          /\ pc' = IF r.exc = "none" THEN After(pc) ELSE 0

\* Variant: the "return" after the error notice left out.
render_html_now_NoReturn(path, height, width_px, minify) ==
  LET r == load_html_text(path, minify)
      notice == IF Exists(path) THEN <<>> ELSE <<StError(<<"File not found", path>>)>>
  IN /\ cache' = r.cache
     /\ loads' = Append(loads, LoadRecord(path, minify, r))
     /\ seen' = SeenAfter(path, minify, r)
     /\ page' = page \o notice \o <<IF r.exc = "none" THEN StHtml(r.value, height, width_px) ELSE Uncaught(r.exc)>>
     /\ pc' = IF r.exc = "none" THEN After(pc) ELSE 0

\* Variant: no existence test, the loader is called at once.
render_html_now_NoCheck(path, height, width_px, minify) ==
  LET r == load_html_text(path, minify)
  IN /\ cache' = r.cache
     /\ loads' = Append(loads, LoadRecord(path, minify, r))
     /\ seen' = SeenAfter(path, minify, r)
     /\ page' = Append(page, IF r.exc = "none" THEN StHtml(r.value, height, width_px) ELSE Uncaught(r.exc))
     /\ pc' = IF r.exc = "none" THEN After(pc) ELSE 0

render_html_now(path, height, width_px, minify) ==
  IF ~Exists(path)
  THEN /\ page' = Append(page, StError(<<"File not found", path>>))
       /\ pc' = After(pc)
       /\ UNCHANGED <<cache, loads, seen>>
  ELSE LET r == load_html_text(path, minify)
       IN /\ cache' = r.cache
          /\ loads' = Append(loads, LoadRecord(path, minify, r))
          /\ seen' = SeenAfter(path, minify, r)
          /\ page' = Append(page, IF r.exc = "none" THEN StHtml(r.value, height, width_px) ELSE Uncaught(r.exc))
          /\ pc' = IF r.exc = "none" THEN After(pc) ELSE 0

\* Script lines 182, 206, 226.
RenderMap ==
  /\ At("html")
  /\ render_html_now(pathVar[Script[pc].var],
                     IF Script[pc].height = "full_h" THEN full_h ELSE pair_h,
                     Script[pc].width, TRUE)
  /\ UNCHANGED <<files, dirs, HAVE_HTMLMIN, run, pathVar, full_h, pair_h, refresh,
                 netlog, reqSinceMissing, removedInRun, envEvents>>

\* ------------------------------------------------------------------ sidebar
FULL_MIN_HEIGHT == 400
PAIR_MIN_HEIGHT == 300

FullHeights == {FULL_MIN_HEIGHT, DEFAULT_FULL_HEIGHT}

PairHeights == {PAIR_MIN_HEIGHT, DEFAULT_PAIR_HEIGHT}

\* Script lines 144-148.  The button is True only in the run its click starts.
Sidebar ==
  /\ At("sidebar")
  /\ \/ /\ refresh' = FALSE
        /\ full_h' \in FullHeights
        /\ pair_h' \in PairHeights
        /\ UNCHANGED <<cache, seen>>
     \/ /\ run = "later"
        /\ refresh' = TRUE
        /\ cache' = CacheClear
        /\ seen' = [k \in CacheKeys |-> NoEntry]
        /\ UNCHANGED <<full_h, pair_h>>
  /\ pc' = After(pc)
  /\ UNCHANGED <<files, dirs, HAVE_HTMLMIN, run, pathVar, page, netlog, reqSinceMissing,
                 removedInRun, loads, envEvents>>

\* ------------------------------------------------------------------- images
StImage(path) == [kind |-> "image", path |-> path]

\* "if IMG.exists(): st.image(...) else: st.error(...)"
ImageElements(path) ==
  IF Exists(path) THEN <<StImage(path)>> ELSE <<StError(<<"Image not found", path>>)>>

\* Script lines 209-212, 267-270, 273-276, 637-644.
RenderImage ==
  /\ At("image")
  /\ page' = page \o ImageElements(Script[pc].path)
  /\ pc' = After(pc)
  /\ UNCHANGED <<files, dirs, cache, HAVE_HTMLMIN, run, pathVar, full_h, pair_h, refresh,
                 netlog, reqSinceMissing, removedInRun, loads, seen, envEvents>>

\* -------------------------------------------------------------- static text
StMarkdown(id) == [kind |-> "markdown", id |-> id]

\* Script lines 205, 215-222, 225, 231-260.
RenderStatic ==
  /\ At("markdown")
  /\ page' = Append(page, StMarkdown(Script[pc].id))
  /\ pc' = After(pc)
  /\ UNCHANGED <<files, dirs, cache, HAVE_HTMLMIN, run, pathVar, full_h, pair_h, refresh,
                 netlog, reqSinceMissing, removedInRun, loads, seen, envEvents>>

\* ------------------------------------------------------------- spreadsheets
\* Cells of a DataFrame: a number (by its repr), a text, or a missing value.
Num(v) == [t |-> "num", v |-> v]

Str(v) == [t |-> "str", v |-> v]

NaN == [t |-> "nan"]

\* A DataFrame with the default RangeIndex: column labels and rows of cells.
DataFrame(columns, rows) == [columns |-> columns, rows |-> rows]

\* The table of the i-th sheet of a workbook; a workbook made without
\* tables holds on each sheet one row that names the sheet.
SheetTable(wb, i) ==
  IF "tables" \in DOMAIN wb
  THEN wb.tables[i]
  ELSE DataFrame(<<"term", "coef">>, << <<Str(wb.sheets[i]), Num("0.5")>> >>)

\* A workbook with the given tables on its sheets.
WorkbookWith(names, tables) == [kind |-> "xlsx", sheets |-> names, readable |-> TRUE, tables |-> tables]

\* pd.read_excel(path, engine="openpyxl", sheet_name=...): the table of the
\* sheet, or the exception raised.  "<first>" is the default sheet_name=0.
ReadExcel(wb, sheet_name) ==
  IF ~wb.readable THEN [exc |-> "BadZipFile"]
  ELSE IF sheet_name = "<first>" THEN [exc |-> "none", df |-> SheetTable(wb, 1)]
  ELSE IF \E i \in 1..Len(wb.sheets) : wb.sheets[i] = sheet_name
  THEN [exc |-> "none",
        df |-> SheetTable(wb, CHOOSE i \in 1..Len(wb.sheets) : wb.sheets[i] = sheet_name)]
  ELSE [exc |-> "ValueError"]

\* Variant of the nested try blocks: the first sheet tried before the names.
RECURSIVE ReadWithFallback_FirstSheetFirst(_, _, _)
ReadWithFallback_FirstSheetFirst(wb, names, i) ==
  LET r == ReadExcel(wb, names[Len(names) + 1 - i])
  IN IF r.exc = "none" \/ i = Len(names) THEN r ELSE ReadWithFallback_FirstSheetFirst(wb, names, i + 1)

\* The nested try blocks: the first attempt that succeeds, else the last error.
RECURSIVE ReadWithFallback(_, _, _)
ReadWithFallback(wb, names, i) ==
  LET r == ReadExcel(wb, names[i])
  IN IF r.exc = "none" \/ i = Len(names) THEN r ELSE ReadWithFallback(wb, names, i + 1)

\* The field to_csv writes for a cell: the repr of a number, the text of a
\* text (quoted where needed, so that it reads back as that text), nothing
\* for a missing value.
CsvField(cell) == IF cell.t = "nan" THEN "" ELSE cell.v

\* df.to_csv(index=...): a header record and one record per row; with the
\* index, each record starts with the row label and the header with an
\* empty field.
CsvOf(df, index) ==
  [kind |-> "csv",
   header |-> (IF index THEN <<"">> ELSE <<>>) \o df.columns,
   records |-> [i \in 1..Len(df.rows) |->
                  (IF index THEN <<ToString(i - 1)>> ELSE <<>>)
                    \o [j \in 1..Len(df.rows[i]) |-> CsvField(df.rows[i][j])]]]

\* Variant: the default index=True.
to_csv_WithIndex(df) == CsvOf(df, TRUE)

\* "df.to_csv(index=False)"
to_csv(df) == CsvOf(df, FALSE)

\* ".encode("utf-8")"
EncodeUtf8(text) == [kind |-> "bytes", encoding |-> "utf-8", text |-> text]

StDataframe(df) == [kind |-> "dataframe", df |-> df]

StDownloadButton(df, file_name) ==
  [kind |-> "download_button", data |-> EncodeUtf8(to_csv(df)), file_name |-> file_name,
   mime |-> "text/csv"]

\* Variant: no "except Exception" around the read.
RenderExcel_NoExcept ==
  /\ At("excel")
  /\ LET path == Script[pc].path
     IN IF ~Exists(path)
        THEN /\ page' = Append(page, StError(<<"File not found", path>>))
             /\ pc' = After(pc)
        ELSE LET r == ReadWithFallback(files[path], Script[pc].sheets, 1)
             IN /\ page' = IF r.exc = "none"
                           THEN page \o <<StDataframe(r.df), StDownloadButton(r.df, Script[pc].csv)>>
                           ELSE Append(page, Uncaught(r.exc))
                /\ pc' = IF r.exc = "none" THEN After(pc) ELSE 0
  /\ UNCHANGED <<files, dirs, cache, HAVE_HTMLMIN, run, pathVar, full_h, pair_h, refresh,
                 netlog, reqSinceMissing, removedInRun, loads, seen, envEvents>>

\* What a table block puts on the page.
ExcelElements(path, sheets, csv) ==
  IF ~Exists(path)
  THEN <<StError(<<"File not found", path>>)>>
  ELSE LET r == ReadWithFallback(files[path], sheets, 1)
       IN IF r.exc = "none"
          THEN <<StDataframe(r.df), StDownloadButton(r.df, csv)>>
          ELSE <<StError(<<"Failed to load Excel file", path, r.exc>>)>>

\* Script lines 383-396, 403-416, 423-442, 476-495, 574-593.
RenderExcel ==
  /\ At("excel")
  /\ page' = page \o ExcelElements(Script[pc].path, Script[pc].sheets, Script[pc].csv)
  /\ pc' = After(pc)
  /\ UNCHANGED <<files, dirs, cache, HAVE_HTMLMIN, run, pathVar, full_h, pair_h, refresh,
                 netlog, reqSinceMissing, removedInRun, loads, seen, envEvents>>

\* ------------------------------------------------------------ specification
Next ==
  \/ StartRebuild
  \/ Download
  \/ Sidebar
  \/ RenderMap
  \/ RenderStatic
  \/ RenderImage
  \/ RenderExcel
  \/ EnvRemove

Spec == Init /\ [][Next]_vars

\* ------------------------------------------- load_html_text called directly
\* Texts on both sides of the threshold, with and without strippable content.
LoaderTexts == {T_below, T_at, T_above, T_dense}

\* The paths the direct calls are made with.
LoaderPaths == {FULL_CENTER_LOCAL, BOTTOM_LEFT_LOCAL}

InitLoader ==
  /\ \E t \in LoaderTexts \cup {Absent} :
       files = [p \in AssetPaths |->
                  IF p \in MapPaths THEN t
                  ELSE IF p \in ImagePaths THEN Png ELSE WB_Sheet1]
  /\ dirs = {<<"Primary Maps">>}
  /\ cache = [k \in CacheKeys |-> NoEntry]
  /\ HAVE_HTMLMIN \in BOOLEAN
  /\ pc = 0
  /\ run = "none"
  /\ pathVar = [v \in PathVars |-> Unbound]
  /\ full_h = DEFAULT_FULL_HEIGHT
  /\ pair_h = DEFAULT_PAIR_HEIGHT
  /\ refresh = FALSE
  /\ page = <<>>
  /\ netlog = <<>>
  /\ reqSinceMissing = [p \in MapPaths |-> 0]
  /\ removedInRun = {}
  /\ loads = <<>>
  /\ seen = [k \in CacheKeys |-> NoEntry]
  /\ envEvents = 0

\* One call of load_html_text with any arguments; loads keeps the last call.
LoaderCall ==
  /\ \E p \in LoaderPaths, do_minify \in BOOLEAN :
       LET r == load_html_text(p, do_minify)
       IN /\ cache' = r.cache
          /\ loads' = <<LoadRecord(p, do_minify, r)>>
          /\ seen' = SeenAfter(p, do_minify, r)
  /\ UNCHANGED <<files, dirs, HAVE_HTMLMIN, pc, run, pathVar, full_h, pair_h, refresh,
                 page, netlog, reqSinceMissing, removedInRun, envEvents>>

\* load_html_text.clear()
LoaderClear ==
  /\ cache' = CacheClear
  /\ seen' = [k \in CacheKeys |-> NoEntry]
  /\ loads' = <<>>
  /\ UNCHANGED <<files, dirs, HAVE_HTMLMIN, pc, run, pathVar, full_h, pair_h, refresh,
                 page, netlog, reqSinceMissing, removedInRun, envEvents>>

\* A map document is put in place or replaced from outside the program.
EnvWrite ==
  /\ envEvents < MaxEnvEvents
  /\ \E p \in LoaderPaths, t \in LoaderTexts :
       /\ files[p] # t
       /\ files' = [files EXCEPT ![p] = t]
  /\ envEvents' = envEvents + 1
  /\ UNCHANGED <<dirs, cache, HAVE_HTMLMIN, pc, run, pathVar, full_h, pair_h, refresh,
                 page, netlog, reqSinceMissing, removedInRun, loads, seen>>

NextLoader ==
  \/ LoaderCall
  \/ LoaderClear
  \/ EnvWrite

SpecLoader == InitLoader /\ [][NextLoader]_vars

\* ------------------------------------------ one run over any local storage
\* Bound on the rows of the tables drawn for a workbook.
MaxTableRows == 2

\* Workbooks: one sheet "Sheet1"; a sheet "sheet 1" that is not the first;
\* one sheet of another name; "Sheet1" after "sheet 1"; and a file that is
\* not a workbook.
WB_DataThenLower == Workbook(<<"Data", "sheet 1">>, TRUE)

WB_Data == Workbook(<<"Data">>, TRUE)

WB_LowerThenSheet1 == Workbook(<<"sheet 1", "Sheet1">>, TRUE)

WB_Corrupt == Workbook(<<>>, FALSE)

Workbooks == {WB_Sheet1, WB_DataThenLower, WB_Data, WB_LowerThenSheet1, WB_Corrupt}

\* Cells of the tables drawn: a number, a label, a missing value, and texts
\* that read as a number or as a missing-value marker.
CellValues == {Num("0.5"), Str("beta"), NaN, Str("007"), Str("NA")}

Tables ==
  {DataFrame(<<"term", "coef">>, rows) :
     rows \in UNION {[1..n -> [1..2 -> CellValues]] : n \in 1..MaxTableRows}}

\* What the map sections may find at a map path.
MapContents == {Absent, T_at, T_above, Binary, T_malformed}

\* The assets as the repository and its release hold them.
Deployed(p) == IF p \in MapPaths THEN T_above ELSE IF p \in ImagePaths THEN Png ELSE WB_Sheet1

\* Local storage when the sections run: any set of assets missing; any
\* workbooks; any contents at the map paths; any table in the first workbook.
RenderStorages ==
  {[p \in AssetPaths |-> IF p \in S THEN Absent ELSE Deployed(p)] : S \in SUBSET AssetPaths}
    \cup {[p \in AssetPaths |-> IF p \in SheetPaths THEN w[p] ELSE Deployed(p)] :
            w \in [SheetPaths -> Workbooks]}
    \cup {[p \in AssetPaths |-> IF p \in MapPaths THEN m[p] ELSE Deployed(p)] :
            m \in [MapPaths -> MapContents]}
    \cup {[p \in AssetPaths |->
             IF p = LOGIT_FULL_XLSX THEN WorkbookWith(<<"Sheet1">>, <<t>>) ELSE Deployed(p)] :
            t \in Tables}

\* What a download_file call that found p absent and failed to fetch it has
\* left on the page and in the history.
FailedFetch(k) ==
  [notices |-> <<StInfo(<<"Fetching", Script[k].remote>>),
                 StError(<<"Failed to fetch", Script[k].remote, FetchUrl(Script[k].remote), "ConnectionError">>)>>,
   request |-> [url |-> FetchUrl(Script[k].remote), for |-> Script[k].local,
                resp |-> [status |-> "ConnectionError"], stage |-> "get"]]

RECURSIVE DownloadsDone(_, _)
DownloadsDone(f, k) ==
  IF k = 0 THEN [page |-> <<>>, netlog |-> <<>>]
  ELSE LET before == DownloadsDone(f, k - 1)
       IN IF Script[k].op = "download" /\ f[Script[k].local] = Absent
          THEN [page |-> before.page \o FailedFetch(k).notices,
                netlog |-> Append(before.netlog, FailedFetch(k).request)]
          ELSE before

\* The first run of the script when its sidebar statements are done: the
\* download_file calls have returned, a map document still absent after a
\* fetch that failed.
InitRender ==
  /\ files \in RenderStorages
  /\ dirs = IF \E p \in MapPaths : files[p] # Absent THEN {<<"Primary Maps">>} ELSE {}
  /\ cache = [k \in CacheKeys |-> NoEntry]
  /\ HAVE_HTMLMIN \in BOOLEAN
  /\ pc = 5
  /\ Script[pc - 1].op = "sidebar"
  /\ run = "first"
  /\ pathVar = [v \in PathVars |-> Script[CHOOSE k \in 1..Len(Script) : Script[k].op = "download" /\ Script[k].var = v].local]
  /\ full_h = DEFAULT_FULL_HEIGHT
  /\ pair_h = DEFAULT_PAIR_HEIGHT
  /\ refresh = FALSE
  /\ page = DownloadsDone(files, pc - 1).page
  /\ netlog = DownloadsDone(files, pc - 1).netlog
  /\ reqSinceMissing = [p \in MapPaths |-> IF files[p] = Absent THEN 1 ELSE 0]
  /\ removedInRun = {}
  /\ loads = <<>>
  /\ seen = [k \in CacheKeys |-> NoEntry]
  /\ envEvents = 0

NextRender ==
  \/ RenderMap
  \/ RenderStatic
  \/ RenderImage
  \/ RenderExcel

SpecRender == InitRender /\ [][NextRender]_vars

\* =================================================================== claims
\* Helpers for stating the claims.

\* The step taken is the download_file call at script position k.
DownloadStep(k) == pc = k /\ pc' # pc /\ Script[k].op = "download"

\* The step issued a GET; LastRequest is its record.
NewRequest == Len(netlog') = Len(netlog) + 1

LastRequest == netlog'[Len(netlog')]

\* Elements the step appended to the page, of the given kind.
AddedOfKind(kind) == {i \in (Len(page) + 1)..Len(page') : page'[i].kind = kind}

Requested(p) == \E i \in 1..Len(netlog) : netlog[i].for = p

ReleaseUrl(remote_name) ==
  "https://github.com/izikn-tooz/NYCmayoralPrimaryanalysis/releases/download/v1Maps/" \o remote_name

\* The page of this run holds a "not found" notice of the section consuming p.
HasNotFound(p) ==
  \E i \in 1..Len(page) :
    /\ page[i].kind = "error"
    /\ page[i].text[1] \in {"File not found", "Image not found"}
    /\ page[i].text[2] = p

\* C1: a download_file call made while a file exists at local_path issues no
\* GET, leaves storage (files and directories) as it is, emits nothing and
\* returns local_path, in the first run and in every later one.
C1_ExistingAssetUntouched ==
  [][\A k \in 1..Len(Script) :
       (DownloadStep(k) /\ Exists(Script[k].local))
         => /\ netlog' = netlog
            /\ files' = files
            /\ dirs' = dirs
            /\ page' = page
            /\ pathVar'[Script[k].var] = Script[k].local]_vars

\* C1 witness: in a later run the first download_file call has returned for a
\* document that was in place, with no GET issued.
C1_Witness ==
  /\ run = "later"
  /\ pc = 2
  /\ Exists(FULL_CENTER_LOCAL)
  /\ netlog = <<>>
  /\ pathVar["FULL_CENTER_PATH"] = FULL_CENTER_LOCAL

\* C2: when download_file is called on an absent path and the try block runs
\* to its end, the file at local_path holds exactly the response body, its
\* parent directory exists, and the GET went to base origin + remote_name.
C2_DownloadPersists ==
  [][\A k \in 1..Len(Script) :
       (DownloadStep(k) /\ ~Exists(Script[k].local) /\ NewRequest /\ LastRequest.stage = "none")
         => /\ LastRequest.resp.status = "ok"
            /\ files'[Script[k].local] = LastRequest.resp.content
            /\ PathAncestors(PathParent(Script[k].local)) \subseteq dirs'
            /\ LastRequest.url = ReleaseUrl(Script[k].remote)
            /\ \A q \in AssetPaths \ {Script[k].local} : files'[q] = files[q]]_vars

\* C2 witness: a document absent at start, with no directory for it, has been
\* fetched and written.
C2_Witness ==
  /\ pc = 2
  /\ netlog # <<>>
  /\ netlog[1].stage = "none"
  /\ files[FULL_CENTER_LOCAL] = netlog[1].resp.content
  /\ <<"Primary Maps">> \in dirs

\* C3: every download_file call returns its local_path argument to the
\* script (the name is bound and the script goes on); when the fetch fails,
\* at the GET, the status check or on storage, exactly one error notice is
\* emitted and no exception reaches module level.
C3_AlwaysReturnsPath ==
  [][\A k \in 1..Len(Script) :
       DownloadStep(k)
         => /\ pathVar'[Script[k].var] = Script[k].local
            /\ pc' = After(k)
            /\ AddedOfKind("exception") = {}
            /\ (NewRequest /\ LastRequest.stage # "none")
                 => /\ Cardinality(AddedOfKind("error")) = 1
                    /\ AddedOfKind("success") = {}
            /\ (~NewRequest \/ LastRequest.stage = "none") => AddedOfKind("error") = {}]_vars

\* C3 witness: a fetch failed on storage (the write), the error was reported
\* and the call returned the path.
C3_Witness ==
  /\ pc = 2
  /\ netlog # <<>>
  /\ netlog[1].stage = "write"
  /\ pathVar["FULL_CENTER_PATH"] = FULL_CENTER_LOCAL
  /\ \E i \in 1..Len(page) : page[i].kind = "error"

\* C4 as stated: over the process lifetime at most one GET is issued for an
\* asset that stays missing (the count restarts when the file is deleted from
\* outside), also after a GET that failed.
C4_AtMostOncePerProcess == \A p \in MapPaths : reqSinceMissing[p] <= 1

\* C4 amended: within one run at most one GET is issued per asset, and a
\* download_file call issues it exactly when the file is absent at the call;
\* so a GET that fails is issued again in the next run.
C4_OncePerRunWhileAbsent ==
  [][/\ \A k \in 1..Len(Script) :
          DownloadStep(k) => (NewRequest <=> ~Exists(Script[k].local))
     /\ \A p \in MapPaths :
          Cardinality({i \in 1..Len(netlog') : netlog'[i].for = p}) <= 1]_vars

\* C4 witness: a second GET for a document whose first GET failed in an
\* earlier run.
C4_Witness ==
  /\ run = "later"
  /\ reqSinceMissing[FULL_CENTER_LOCAL] = 2
  /\ Requested(FULL_CENTER_LOCAL)

\* C5: when the fetch of an absent path fails at the GET or at the status
\* check, storage is as before the call: no file at local_path, no directory
\* made, no other file touched.
C5_FetchFailureLeavesAbsent ==
  [][\A k \in 1..Len(Script) :
       (DownloadStep(k) /\ NewRequest /\ LastRequest.stage \in {"get", "raise_for_status"})
         => /\ files' = files
            /\ dirs' = dirs
            /\ ~Exists(Script[k].local)
            /\ files'[Script[k].local] = Absent]_vars

\* C5 witness: an HTTP error status was reported and neither the file nor
\* the "Primary Maps" directory exists.
C5_Witness ==
  /\ pc = 2
  /\ netlog # <<>>
  /\ netlog[1].stage = "raise_for_status"
  /\ files[FULL_CENTER_LOCAL] = Absent
  /\ dirs = {}

\* C6: a step of the program (any step but a deletion from outside, which is
\* the only step that leaves pc alone) neither changes nor removes a file
\* that is present, and issues no GET for it.
C6_WriteOnce ==
  [][pc' # pc =>
       \A p \in AssetPaths :
         Exists(p) => /\ files'[p] = files[p]
                      /\ ~(NewRequest /\ LastRequest.for = p)]_vars

\* C6 witness: after a moved height control and a later "Refresh maps" run,
\* the copy of the full-width map put there at deployment is still in place,
\* although the release holds another text.
C6_Witness ==
  /\ pc = 0
  /\ run = "later"
  /\ refresh
  /\ full_h = FULL_MIN_HEIGHT
  /\ files[FULL_CENTER_LOCAL] = T_at
  /\ T_at \notin Bodies

\* C7 as stated: whenever a section of any kind finds its path absent (and
\* the file was not deleted from outside during the run), a GET for that path
\* was issued earlier in the run.
C7_FetchForEveryKind ==
  \A p \in AssetPaths : (HasNotFound(p) /\ p \notin removedInRun) => Requested(p)

\* C7 amended: only the three map documents are fetched.  When a map section
\* finds its path absent and the file was not deleted during the run, a GET
\* to the release URL of that document was issued earlier in the run; no GET
\* is ever issued for an image or a spreadsheet.
C7_FetchForMapsOnly ==
  /\ \A p \in MapPaths :
       (HasNotFound(p) /\ p \notin removedInRun)
         => \E i \in 1..Len(netlog) :
              /\ netlog[i].for = p
              /\ netlog[i].url = ReleaseUrl(Script[DownloadStepOf(p)].remote)
  /\ \A p \in ImagePaths \cup SheetPaths : ~Requested(p)

\* C7 witness: the Shannon map section reported its file missing after a GET
\* for it failed in the same run.
C7_Witness ==
  /\ HasNotFound(BOTTOM_RIGHT_LOCAL)
  /\ BOTTOM_RIGHT_LOCAL \notin removedInRun
  /\ Requested(BOTTOM_RIGHT_LOCAL)

\* The step is a call of load_html_text; LastLoad is its record.
LoadStep == loads' # loads /\ loads' # <<>>

LastLoad == loads'[Len(loads')]

\* C8: a call whose key was already returned for since the last clear gives
\* the text of that first call, reads nothing from storage and leaves the
\* table alone, whatever happened to the file since; a call whose key was
\* not (another path, or the other flag) reads storage and answers from what
\* it read.
C8_Memoization ==
  [][LoadStep =>
       IF seen[LastLoad.key] # NoEntry
       THEN /\ LastLoad.exc = "none"
            /\ LastLoad.value = seen[LastLoad.key]
            /\ ~LastLoad.read
            /\ cache' = cache
       ELSE /\ LastLoad.read
            /\ LastLoad.exc = "none" <=> Exists(LastLoad.key[1])
            /\ LastLoad.exc = "none" =>
                 /\ LastLoad.src = files[LastLoad.key[1]]
                 /\ LastLoad.value \in {LastLoad.src, [LastLoad.src EXCEPT !.ws = 0]}
                 /\ cache'[LastLoad.key] = LastLoad.value
                 /\ \A k \in CacheKeys \ {LastLoad.key} : cache'[k] = cache[k]]_vars

\* C8 witness: a call answered from the table with the first call's text,
\* although the file has been replaced since and holds another text now,
\* while the same path with the other flag has its own entry.
C8_Witness ==
  /\ Len(loads) = 1
  /\ ~loads[1].read
  /\ loads[1].key = <<FULL_CENTER_LOCAL, TRUE>>
  /\ loads[1].value = seen[loads[1].key]
  /\ Exists(FULL_CENTER_LOCAL)
  /\ loads[1].value \notin {files[FULL_CENTER_LOCAL], [files[FULL_CENTER_LOCAL] EXCEPT !.ws = 0]}
  /\ cache[<<FULL_CENTER_LOCAL, FALSE>>] # NoEntry
  /\ cache[<<FULL_CENTER_LOCAL, FALSE>>] # cache[<<FULL_CENTER_LOCAL, TRUE>>]

\* Position of the sidebar statements in the script.
SidebarPos == CHOOSE k \in 1..Len(Script) : Script[k].op = "sidebar"

\* Map sections that have embedded a document in this run.
Iframes == {i \in 1..Len(page) : page[i].kind = "iframe"}

\* C9: in a run started by "Refresh maps", the table is empty when the
\* sidebar statements are done, which is before the first map section; every
\* call of the loader in that run reads storage, and every map document
\* embedded in that run was read in that run, with the minifier applied
\* again to a text above the threshold, and what is embedded is the text so
\* obtained.
C9_RefreshRereads ==
  refresh =>
    /\ (pc = SidebarPos + 1) => (\A k \in CacheKeys : cache[k] = NoEntry)
    /\ \A j \in 1..Len(Script) : Script[j].op = "html" => j > SidebarPos
    /\ Cardinality(Iframes) = Cardinality({i \in 1..Len(loads) : loads[i].exc = "none"})
    /\ \A i \in 1..Len(loads) :
         /\ loads[i].read
         /\ loads[i].exc = "none" =>
              /\ loads[i].src # NoEntry
              /\ loads[i].minified <=> (HAVE_HTMLMIN /\ loads[i].src.n + loads[i].src.ws > 200000)
              /\ loads[i].value = IF loads[i].minified THEN [loads[i].src EXCEPT !.ws = 0] ELSE loads[i].src
              /\ \E e \in Iframes : page[e].html = loads[i].value

\* C9 witness: a "Refresh maps" run has ended in which all three documents
\* were embedded, the first one minified again.
C9_Witness ==
  /\ refresh
  /\ run = "later"
  /\ pc = 0
  /\ Len(loads) = 3
  /\ loads[1].minified
  /\ loads[1].read
  /\ cache[<<FULL_CENTER_LOCAL, TRUE>>] = loads[1].value

\* C10: on a storage read, the minifier runs exactly when the flag is true,
\* htmlmin is importable and the text is longer than 200,000 characters; the
\* value is then the stripped text, and in every other case (200,000
\* characters or fewer, flag false, no htmlmin) it is the text of the file.
C10_MinifyThreshold ==
  \A i \in 1..Len(loads) :
    (loads[i].read /\ loads[i].exc = "none") =>
      LET r == loads[i]
          len == r.src.n + r.src.ws
      IN /\ r.minified <=> (r.key[2] /\ HAVE_HTMLMIN /\ len > 200000)
         /\ r.minified => r.value = [r.src EXCEPT !.ws = 0]
         /\ ~r.minified => r.value = r.src
         /\ len <= 200000 => r.value = r.src
         /\ len = 199999 => r.value = r.src

\* C10 witness: a text of exactly 200,000 characters with strippable content
\* was read with the flag true and htmlmin importable, and came back as is.
C10_Witness ==
  /\ HAVE_HTMLMIN
  /\ Len(loads) = 1
  /\ loads[1].read
  /\ loads[1].key[2]
  /\ loads[1].src = T_at
  /\ loads[1].src.ws > 0
  /\ loads[1].value = T_at

\* The display statements of the script, and the path each one consumes.
SectionSteps == {k \in 1..Len(Script) : Script[k].op \in {"html", "markdown", "image", "excel"}}

FileSteps == {k \in SectionSteps : Script[k].op # "markdown"}

SectionPath(k) ==
  IF Script[k].op = "html"
  THEN Script[CHOOSE d \in 1..Len(Script) : Script[d].op = "download" /\ Script[d].var = Script[k].var].local
  ELSE Script[k].path

\* The step taken is the display statement at script position k; Emitted
\* are the elements it put on the page.
SectionStep(k) == pc = k /\ pc' # pc /\ k \in SectionSteps

Emitted == SubSeq(page', Len(page) + 1, Len(page'))

NotFoundNotice(k) ==
  StError(<<IF Script[k].op = "image" THEN "Image not found" ELSE "File not found", SectionPath(k)>>)

\* What a section shows of the asset as deployed, read in this run.
DeployedRendering(k) ==
  CASE Script[k].op = "html" ->
         <<[kind |-> "iframe",
            html |-> IF HAVE_HTMLMIN THEN [T_above EXCEPT !.ws = 0] ELSE T_above,
            height |-> IF Script[k].height = "full_h" THEN full_h ELSE pair_h,
            width |-> Script[k].width]>>
    [] Script[k].op = "image" -> <<[kind |-> "image", path |-> Script[k].path]>>
    [] Script[k].op = "excel" ->
         LET df == [columns |-> <<"term", "coef">>, rows |-> << <<Str("Sheet1"), Num("0.5")>> >>]
         IN <<[kind |-> "dataframe", df |-> df],
              [kind |-> "download_button",
               data |-> [kind |-> "bytes", encoding |-> "utf-8",
                         text |-> [kind |-> "csv", header |-> <<"term", "coef">>,
                                   records |-> << <<"Sheet1", "0.5">> >>]],
               file_name |-> Script[k].csv, mime |-> "text/csv"]>>

\* C11: whatever set of asset files is absent when the sections run, a
\* section whose file is absent emits its "not found" notice and the script
\* goes on to the next statement; a section whose file is present as
\* deployed emits exactly what it emits when no file is absent, and the
\* script goes on; so the script stops before its end only where it would
\* with no file absent, and it is never stuck.
C11_MissingFileIsolation ==
  /\ [][\A k \in FileSteps :
          SectionStep(k) =>
            /\ ~Exists(SectionPath(k)) => (Emitted = <<NotFoundNotice(k)>> /\ pc' = After(k))
            /\ files[SectionPath(k)] = Deployed(SectionPath(k))
                 => (Emitted = DeployedRendering(k) /\ pc' = After(k))
            /\ pc' \in {After(k), 0}
            /\ (pc' = 0 /\ k # Len(Script))
                 => (Exists(SectionPath(k)) /\ Emitted[1].kind = "exception")]_vars
  /\ [](pc # 0 => ENABLED NextRender)

\* C11 witness: the script has reached its end with a map document, an
\* image and a workbook absent, each reported by its section, and the
\* sections between and after them rendered.
C11_Witness ==
  /\ pc = 0
  /\ HasNotFound(BOTTOM_LEFT_LOCAL)
  /\ HasNotFound(PERSONAL_VS_ZOHRAN_IMG)
  /\ HasNotFound(LOGIT_PARTIAL_XLSX)
  /\ \E i \in 1..Len(page) : page[i].kind = "iframe"
  /\ \E i \in 1..Len(page) : page[i].kind = "dataframe"
  /\ page[Len(page)] = StImage(QUEENS_EXAMPLE_IMG)

\* The page element e is the "not found" notice of the statement at k.
IsNotFoundOf(e, k) ==
  /\ e.kind = "error"
  /\ e.text[1] = (IF Script[k].op = "image" THEN "Image not found" ELSE "File not found")
  /\ e.text[2] = SectionPath(k)

\* The page element e shows the file of the statement at k (an embedded
\* document is not marked with its path and is counted instead).
ShowsFileOf(e, k) ==
  \/ Script[k].op = "image" /\ e.kind = "image" /\ e.path = Script[k].path
  \/ Script[k].op = "excel" /\ e.kind = "download_button" /\ e.file_name = Script[k].csv

\* The page element e was emitted by the statement at k.
EmittedBy(e, k) ==
  \/ Script[k].op = "markdown" /\ e.kind = "markdown" /\ e.id = Script[k].id
  \/ Script[k].op # "markdown" /\ (IsNotFoundOf(e, k) \/ ShowsFileOf(e, k))

\* C12 as stated: once a section has reported its file missing, nothing
\* further of that section is rendered (for the personal-diversity column,
\* neither its example image nor its note).
C12_NothingFurtherInSection ==
  \A k \in FileSteps : \A i \in 1..Len(page) :
    IsNotFoundOf(page[i], k) =>
      \A j \in (i + 1)..Len(page) : \A k2 \in SectionSteps :
        Script[k2].section = Script[k].section => ~EmittedBy(page[j], k2)

\* C12 amended: a statement whose file is missing emits one "not found"
\* notice and does not show that file (no embedded document, image, table
\* or download control of it); the statements that follow it in the same
\* section are still rendered: beneath a missing personal-diversity map the
\* example image (or its own notice) and the note, beneath a missing Shannon
\* map its note.
C12_OnlyTheFileWithheld ==
  /\ \A k \in FileSteps :
       (\E i \in 1..Len(page) : IsNotFoundOf(page[i], k)) =>
         /\ ~Exists(SectionPath(k))
         /\ Cardinality({i \in 1..Len(page) : IsNotFoundOf(page[i], k)}) = 1
         /\ \A i \in 1..Len(page) : ~ShowsFileOf(page[i], k)
         /\ \A k2 \in SectionSteps :
              (k2 > k /\ Script[k2].section = Script[k].section /\ (pc = 0 \/ pc > k2))
                => \E j \in 1..Len(page) : EmittedBy(page[j], k2)
  /\ Cardinality(Iframes)
       <= Cardinality({k \in FileSteps : Script[k].op = "html" /\ Exists(SectionPath(k))})

\* C12 witness: the personal-diversity map was reported missing, and its
\* column went on with the example image and the note.
C12_Witness ==
  /\ pc = 0
  /\ \E i \in 1..Len(page) :
       /\ IsNotFoundOf(page[i], 7)
       /\ SectionPath(7) = BOTTOM_LEFT_LOCAL
       /\ page[i + 1] = StImage(PERSONAL_DIVERSITY_IMG)
       /\ page[i + 2] = StMarkdown("note: Personal Diversity Index")

\* The page element e is the "Failed to load Excel file" notice of the
\* statement at k.
IsLoadFailureOf(e, k) ==
  /\ e.kind = "error"
  /\ e.text[1] = "Failed to load Excel file"
  /\ e.text[2] = Script[k].path

\* C13 as stated: an error that arises while a section renders a file that
\* exists (a map document that is not UTF-8 or on which the minifier fails,
\* a malformed workbook) never reaches module level, and when the run is
\* over every section after it has been rendered: every static text, image
\* and table statement has emitted its element or its notice, and each map
\* statement an embedded document or a notice.
C13_ErrorsIsolated ==
  /\ \A i \in 1..Len(page) : page[i].kind # "exception"
  /\ pc = 0 =>
       /\ \A k \in SectionSteps :
            Script[k].op # "html" =>
              \E j \in 1..Len(page) : EmittedBy(page[j], k) \/ IsLoadFailureOf(page[j], k)
       /\ Cardinality(Iframes)
            + Cardinality({k \in FileSteps : Script[k].op = "html" /\ ~Exists(SectionPath(k))})
            = Cardinality({k \in FileSteps : Script[k].op = "html"})

ExcelSteps == {k \in FileSteps : Script[k].op = "excel"}

\* C14: when the file of one of the five tables exists but is not a
\* workbook that can be parsed, its statement emits exactly one error notice
\* that names the file and carries the error raised, and neither a table nor
\* a download control; the script goes on, a later table whose workbook is
\* as deployed is rendered as it is otherwise, and when the run is over
\* every statement after the failed one has emitted its element or notice.
C14_ParseFailureIsolated ==
  /\ [][\A k \in ExcelSteps :
          SectionStep(k) =>
            /\ (Exists(Script[k].path) /\ ~files[Script[k].path].readable)
                 => /\ Emitted = <<[kind |-> "error",
                                    text |-> <<"Failed to load Excel file", Script[k].path, "BadZipFile">>]>>
                    /\ pc' = After(k)
            /\ files[Script[k].path] = Deployed(Script[k].path)
                 => Emitted = DeployedRendering(k)]_vars
  /\ [](\A k \in ExcelSteps :
          (pc = 0 /\ \E i \in 1..Len(page) : IsLoadFailureOf(page[i], k)) =>
            /\ Cardinality({i \in 1..Len(page) : IsLoadFailureOf(page[i], k)}) = 1
            /\ \A i \in 1..Len(page) : ~ShowsFileOf(page[i], k)
            /\ \A k2 \in SectionSteps :
                 k2 > k => \E j \in 1..Len(page) :
                             EmittedBy(page[j], k2) \/ IsLoadFailureOf(page[j], k2))

\* C14 witness: the run is over, the full-logit file was not a workbook and
\* was reported with the error raised, the partial-logit table and its
\* download control follow, and the last image is rendered.
C14_Witness ==
  /\ pc = 0
  /\ files[LOGIT_FULL_XLSX] = WB_Corrupt
  /\ \E i \in 1..Len(page) :
       /\ page[i] = StError(<<"Failed to load Excel file", LOGIT_FULL_XLSX, "BadZipFile">>)
       /\ page[i + 1].kind = "dataframe"
       /\ page[i + 2].kind = "download_button"
       /\ page[i + 2].file_name = "LogitPartial_table.csv"
  /\ page[Len(page)] = StImage(QUEENS_EXAMPLE_IMG)

\* The display statement at k run on its own from the table c: what it
\* emits, the table afterwards, and whether the script goes on after it (an
\* exception that reaches module level ends the run).
SectionRun(c, k) ==
  CASE Script[k].op = "html" ->
         IF ~Exists(SectionPath(k))
         THEN [out |-> <<StError(<<"File not found", SectionPath(k)>>)>>, cache |-> c, alive |-> TRUE]
         ELSE LET r == CachedCall(c, SectionPath(k), TRUE)
              IN [out |-> IF r.exc = "none"
                          THEN <<StHtml(r.value, IF Script[k].height = "full_h" THEN full_h ELSE pair_h,
                                        Script[k].width)>>
                          ELSE <<Uncaught(r.exc)>>,
                  cache |-> r.cache, alive |-> r.exc = "none"]
    [] Script[k].op = "markdown" -> [out |-> <<StMarkdown(Script[k].id)>>, cache |-> c, alive |-> TRUE]
    [] Script[k].op = "image" -> [out |-> ImageElements(Script[k].path), cache |-> c, alive |-> TRUE]
    [] Script[k].op = "excel" ->
         [out |-> ExcelElements(Script[k].path, Script[k].sheets, Script[k].csv),
          cache |-> c, alive |-> TRUE]

\* The statements at a and then at b, as the script would run them one after
\* the other from the table as it is: the content of each, and the table
\* and the storage at the end.
InOrder(a, b) ==
  LET first == SectionRun(cache, a)
      second == IF first.alive THEN SectionRun(first.cache, b)
                ELSE [out |-> <<>>, cache |-> first.cache, alive |-> FALSE]
  IN [content |-> [k \in {a, b} |-> IF k = a THEN first.out ELSE second.out],
      cache |-> second.cache, files |-> files]

\* C15 as stated: any two display sections, rendered in either order from
\* the same state, give the same content for each section and the same
\* storage and memoization table at the end.
C15_SectionsCommute ==
  \A a, b \in SectionSteps : a # b => InOrder(a, b) = InOrder(b, a)

\* Parsing an export back, as pandas.read_csv does by default: an empty
\* field and a missing-value marker read as missing; a column whose fields
\* all read as numbers or missing is numeric, any other column is text.
NumericTexts == {"0.5", "007"}

NumberRead(field) == IF field = "007" THEN "7" ELSE field

NaMarkers == {"", "NA"}

IsNumericColumn(csv, j) ==
  \A i \in 1..Len(csv.records) : csv.records[i][j] \in NumericTexts \cup NaMarkers

CellRead(csv, i, j) ==
  LET field == csv.records[i][j]
  IN IF field \in NaMarkers THEN NaN
     ELSE IF IsNumericColumn(csv, j) THEN Num(NumberRead(field))
     ELSE Str(field)

read_csv(csv) ==
  DataFrame([j \in 1..Len(csv.header) |->
               IF csv.header[j] = "" THEN "Unnamed: " \o ToString(j - 1) ELSE csv.header[j]],
            [i \in 1..Len(csv.records) |->
               [j \in 1..Len(csv.header) |-> CellRead(csv, i, j)]])

\* Positions of the page where a table is shown.
Dataframes == {i \in 1..Len(page) : page[i].kind = "dataframe"}

ReadsBackAsIs(df, j) ==
  \/ \A i \in 1..Len(df.rows) : df.rows[i][j].t \in {"num", "nan"}
  \/ /\ \A i \in 1..Len(df.rows) :
          df.rows[i][j].t \in {"str", "nan"} /\ (df.rows[i][j].t = "str" => df.rows[i][j].v \notin NaMarkers)
     /\ \E i \in 1..Len(df.rows) : df.rows[i][j].t = "str" /\ df.rows[i][j].v \notin NumericTexts

C17_ExistenceBeforeLoad ==
  [][\A k \in FileSteps :
       (SectionStep(k) /\ Script[k].op = "html") =>
         /\ ~Exists(SectionPath(k))
              => /\ loads' = loads
                 /\ cache' = cache
                 /\ Emitted = <<NotFoundNotice(k)>>
         /\ loads' # loads
              => /\ Exists(SectionPath(k))
                 /\ LastLoad.key = <<SectionPath(k), TRUE>>
                 /\ LastLoad.exc # "FileNotFoundError"
         /\ (\E i \in 1..Len(Emitted) : Emitted[i].kind = "iframe") => loads' # loads]_vars

\* C17 witness: a document embedded in an earlier run, and still in the
\* table, was deleted before its section ran: the section reported it
\* missing, embedded nothing and called the loader not at all.
C17_Witness ==
  /\ run = "later"
  /\ pc = 7
  /\ ~Exists(FULL_CENTER_LOCAL)
  /\ cache[<<FULL_CENTER_LOCAL, TRUE>>] # NoEntry
  /\ HasNotFound(FULL_CENTER_LOCAL)
  /\ Iframes = {}
  /\ loads = <<>>

\* The file at p is what an interrupted write of a response body left.
IsPartial(p) == files[p] \in UNION {Truncations(b) : b \in Bodies}

\* C18: when the write of a fetched body fails, the incomplete file stays at
\* local_path and the error is reported.  From then on the file counts as
\* any file does: a download_file call for it issues no GET and leaves it
\* as it is, and its map statement does not report it missing but loads it
\* through the table, embedding the text of the file as it is (or the
\* memoized text of the path, if there is one) and raising on bytes that
\* are no text as on any such file.
C18_PartialFileKept ==
  [][\A k \in 1..Len(Script) :
       /\ (DownloadStep(k) /\ NewRequest /\ LastRequest.stage = "write")
            => /\ files'[Script[k].local] \in Truncations(LastRequest.resp.content)
               /\ files'[Script[k].local] # LastRequest.resp.content
               /\ files'[Script[k].local] # Absent
               /\ Cardinality(AddedOfKind("error")) = 1
       /\ (DownloadStep(k) /\ IsPartial(Script[k].local))
            => /\ ~NewRequest
               /\ files' = files
               /\ page' = page
       /\ (SectionStep(k) /\ Script[k].op = "html" /\ IsPartial(SectionPath(k)))
            => LET p == SectionPath(k)
                   shown == IF cache[<<p, TRUE>>] # NoEntry THEN cache[<<p, TRUE>>] ELSE files[p]
               IN /\ files' = files
                  /\ Len(Emitted) = 1
                  /\ IF shown.kind = "text"
                     THEN /\ Emitted[1].kind = "iframe"
                          /\ Emitted[1].html = shown
                     ELSE /\ Emitted[1].kind = "exception"
                          /\ Emitted[1].text = <<"UnicodeDecodeError">>]_vars

\* C18 witness: a later run has ended in which no GET was issued for the
\* overlay map, whose file is the first half of the body left by a write
\* that failed, and that half is what the section embedded.
C18_Witness ==
  /\ run = "later"
  /\ pc = 0
  /\ files[FULL_CENTER_LOCAL] = Text(T_above.n \div 2, T_above.ws \div 2)
  /\ files[FULL_CENTER_LOCAL] \notin Bodies \cup {T_at}
  /\ ~Requested(FULL_CENTER_LOCAL)
  /\ reqSinceMissing[FULL_CENTER_LOCAL] = 1
  /\ \E i \in Iframes : page[i].html = files[FULL_CENTER_LOCAL] /\ page[i].width = 2200

\* The sheet whose table a block shows for a workbook when it tries the
\* names in the order given, or "<error>" when every attempt fails.
HasSheet(wb, name) == wb.readable /\ \E i \in 1..Len(wb.sheets) : wb.sheets[i] = name

SheetShown(wb, withFallback) ==
  IF HasSheet(wb, "Sheet1") THEN "Sheet1"
  ELSE IF withFallback /\ HasSheet(wb, "sheet 1") THEN "sheet 1"
  ELSE IF withFallback /\ wb.readable /\ wb.sheets # <<>> THEN wb.sheets[1]
  ELSE "<error>"

FallbackTables == {LOGIT_BIVAR_XLSX, MULTI_UNWEIGHTED_XLSX, MULTI_WEIGHT_XLSX}

====
